---- MODULE Spec2Model ----
(***************************************************************************)
(* Model of the Finance Analyzer host (src/src/host.py): the connection    *)
(* manager with bounded retry and backoff, catalog discovery, tool         *)
(* invocation, the single-round tool-use conversation and the interactive  *)
(* shell, as run from main().                                              *)
(*                                                                         *)
(* Text that the code inspects (exception type names, exception messages,  *)
(* operator input) is a sequence of one-character strings, so that         *)
(* str.lower(), str.strip() and the substring test `k in s` are computed.  *)
(* Text that the code only builds and hands on is a TLA+ string.           *)
(***************************************************************************)
EXTENDS Integers, Sequences, FiniteSets, TLC

----------------------------------------------------------------------------
(* Text helpers *)

UpperCase ==
    <<"A", "B", "C", "D", "E", "F", "G", "H", "I", "J", "K", "L", "M",
      "N", "O", "P", "Q", "R", "S", "T", "U", "V", "W", "X", "Y", "Z">>

LowerCase ==
    <<"a", "b", "c", "d", "e", "f", "g", "h", "i", "j", "k", "l", "m",
      "n", "o", "p", "q", "r", "s", "t", "u", "v", "w", "x", "y", "z">>

\* one character of str.lower()
lower_char(c) ==
    IF \E i \in 1..26 : UpperCase[i] = c
    THEN LowerCase[CHOOSE i \in 1..26 : UpperCase[i] = c]
    ELSE c

\* str.lower()
lower(s) == [i \in 1..Len(s) |-> lower_char(s[i])]

\* one character of str.upper()
upper_char(c) ==
    IF \E i \in 1..26 : LowerCase[i] = c
    THEN UpperCase[CHOOSE i \in 1..26 : LowerCase[i] = c]
    ELSE c

\* str.upper()
upper(s) == [i \in 1..Len(s) |-> upper_char(s[i])]

\* the substring test `k in s`
contains(s, k) ==
    \E i \in 0..(Len(s) - Len(k)) : SubSeq(s, i + 1, i + Len(k)) = k

\* the text of a character sequence, as used in an f-string
RECURSIVE Str(_)
Str(s) == IF s = <<>> THEN "" ELSE Head(s) \o Str(Tail(s))

----------------------------------------------------------------------------
(* Program constants *)

max_retries == 3

base_delay == 1

connection_keywords ==
    << <<"c", "o", "n", "n", "e", "c", "t", "i", "o", "n">>,
       <<"p", "r", "o", "t", "o", "c", "o", "l">>,
       <<"r", "e", "m", "o", "t", "e">>,
       <<"d", "i", "s", "c", "o", "n", "n", "e", "c", "t">>,
       <<"c", "l", "o", "s", "e", "d">>,
       <<"r", "e", "s", "e", "t">>,
       <<"r", "e", "f", "u", "s", "e", "d">>,
       <<"u", "n", "r", "e", "a", "c", "h", "a", "b", "l", "e">>,
       <<"t", "i", "m", "e", "o", "u", "t">>,
       <<"n", "e", "t", "w", "o", "r", "k">> >>

SystemNote ==
    [role |-> "system",
     content |-> "Note: MCP server tools are currently unavailable. Provide a helpful response based on general knowledge."]

ServerDownMessage ==
    "MCP server is no longer available. The server may have been shut down. "
    \o "You can continue with general questions or restart the server and try again."

----------------------------------------------------------------------------
(* Bounds *)

\* number of lines the operator enters at the "You: " prompt
MaxInputs == 3

----------------------------------------------------------------------------
(* Exceptions: `timeout` says that the exception is an instance of         *)
(* asyncio.TimeoutError, type_name is type(e).__name__, message is str(e). *)

NoException == [timeout |-> FALSE, type_name |-> <<>>, message |-> <<>>]

AsyncTimeoutError ==
    [timeout |-> TRUE,
     type_name |-> <<"T", "i", "m", "e", "o", "u", "t", "E", "r", "r", "o", "r">>,
     message |-> <<>>]

PeerClosedError ==
    [timeout |-> FALSE,
     type_name |-> <<"E", "x", "c", "e", "p", "t", "i", "o", "n">>,
     message |-> <<"R", "e", "m", "o", "t", "e", "P", "r", "o", "t", "o", "c", "o", "l",
                   "E", "r", "r", "o", "r", ":", " ", "p", "e", "e", "r", " ",
                   "c", "l", "o", "s", "e", "d", " ",
                   "c", "o", "n", "n", "e", "c", "t", "i", "o", "n">>]

ConnectionResetError ==
    [timeout |-> FALSE,
     type_name |-> <<"C", "o", "n", "n", "e", "c", "t", "i", "o", "n",
                     "R", "e", "s", "e", "t", "E", "r", "r", "o", "r">>,
     message |-> <<>>]

ReadTimeoutError ==
    [timeout |-> FALSE,
     type_name |-> <<"R", "e", "a", "d", "T", "i", "m", "e", "o", "u", "t">>,
     message |-> <<>>]

ServerUnreachableError ==
    [timeout |-> FALSE,
     type_name |-> <<"M", "c", "p", "E", "r", "r", "o", "r">>,
     message |-> <<"S", "e", "r", "v", "e", "r", " ",
                   "U", "N", "R", "E", "A", "C", "H", "A", "B", "L", "E">>]

BadSymbolError ==
    [timeout |-> FALSE,
     type_name |-> <<"V", "a", "l", "u", "e", "E", "r", "r", "o", "r">>,
     message |-> <<"b", "a", "d", " ", "s", "y", "m", "b", "o", "l">>]

\* raised by content[0].text when the first block has no text attribute
AttributeError ==
    [timeout |-> FALSE,
     type_name |-> <<"A", "t", "t", "r", "i", "b", "u", "t", "e", "E", "r", "r", "o", "r">>,
     message |-> <<"n", "o", " ", "a", "t", "t", "r", "i", "b", "u", "t", "e", " ",
                   "'", "t", "e", "x", "t", "'">>]

\* raised by content[0] when the content list is empty
IndexError ==
    [timeout |-> FALSE,
     type_name |-> <<"I", "n", "d", "e", "x", "E", "r", "r", "o", "r">>,
     message |-> <<"l", "i", "s", "t", " ", "i", "n", "d", "e", "x", " ",
                   "o", "u", "t", " ", "o", "f", " ", "r", "a", "n", "g", "e">>]

AuthenticationError ==
    [timeout |-> FALSE,
     type_name |-> <<"A", "u", "t", "h", "e", "n", "t", "i", "c", "a", "t", "i", "o", "n",
                     "E", "r", "r", "o", "r">>,
     message |-> <<>>]

APIConnectionError ==
    [timeout |-> FALSE,
     type_name |-> <<"A", "P", "I", "C", "o", "n", "n", "e", "c", "t", "i", "o", "n",
                     "E", "r", "r", "o", "r">>,
     message |-> <<>>]

----------------------------------------------------------------------------
(* Content blocks and tool descriptors *)

TextBlock(t) == [type |-> "text", text |-> t]

ToolUseBlock(i, n, a) == [type |-> "tool_use", id |-> i, name |-> n, input |-> a]

ImageBlock == [type |-> "image"]

\* hasattr(block, "text")
HasText(block) == block.type = "text"

\* the evaluation of content[0].text: the text, or the exception it raises
first_text(content) ==
    IF content = <<>> THEN [exc |-> IndexError, text |-> ""]
    ELSE IF ~HasText(content[1]) THEN [exc |-> AttributeError, text |-> ""]
    ELSE [exc |-> NoException, text |-> content[1].text]

QuoteTool ==
    [name |-> "get_stock_quote", description |-> "Get stock quote",
     inputSchema |-> "symbol"]

CryptoTool ==
    [name |-> "get_crypto_price",
     description |-> "Get current cryptocurrency price in USD",
     inputSchema |-> "symbol"]

----------------------------------------------------------------------------
(* What the collaborators can answer *)

\* answers of mcp_session.list_tools() under asyncio.wait_for
DiscoveryOutcomes ==
    { [kind |-> "response", tools |-> <<>>, exc |-> NoException],
      [kind |-> "response", tools |-> <<QuoteTool>>, exc |-> NoException],
      [kind |-> "response", tools |-> <<QuoteTool, CryptoTool>>, exc |-> NoException],
      [kind |-> "raise", tools |-> <<>>, exc |-> AsyncTimeoutError],
      [kind |-> "raise", tools |-> <<>>, exc |-> ConnectionResetError] }

\* outcomes of the transport, session and initialize steps of one attempt
StepOutcomes == {"ok", "timeout", "error"}

ToolExceptions ==
    { AsyncTimeoutError, PeerClosedError, ConnectionResetError,
      ReadTimeoutError, ServerUnreachableError, BadSymbolError }

\* answers of mcp_session.call_tool() under asyncio.wait_for
ToolOutcomes ==
    { [kind |-> "result", content |-> c, exc |-> NoException] :
        c \in { <<>>, <<TextBlock("AAPL: $150.00")>>, <<ImageBlock>> } }
    \cup { [kind |-> "raise", content |-> <<>>, exc |-> e] : e \in ToolExceptions }

ToolUse1 == ToolUseBlock("toolu_1", "get_stock_quote", [symbol |-> "AAPL"])

ToolUse2 == ToolUseBlock("toolu_2", "get_crypto_price", [symbol |-> "BTC"])

\* content of the answers to the first request of a turn
ResponseContents ==
    { <<>>,
      <<TextBlock("Apple is at $150.00")>>,
      <<TextBlock("Let me check.")>>,
      <<TextBlock("Let me check."), ToolUse1>>,
      <<ToolUse1>>,
      <<TextBlock("Let me check."), ToolUse1, ToolUse2>>,
      <<ToolUse1, ToolUse2>> }

\* content of the answers to the follow-up request of a turn
FinalResponseContents ==
    { <<>>,
      <<TextBlock("Apple is at $150.00")>>,
      <<TextBlock("Let me check."), ToolUse2>>,
      <<ToolUse2>> }

StopReasons == {"end_turn", "tool_use"}

LlmExceptions == {AsyncTimeoutError, AuthenticationError, APIConnectionError}

NoResponse == [kind |-> "none", stop_reason |-> "", content |-> <<>>, exc |-> NoException]

\* answers of anthropic_client.messages.create under asyncio.wait_for
LlmOutcomes(contents) ==
    { [kind |-> "response", stop_reason |-> s, content |-> c, exc |-> NoException] :
        s \in StopReasons, c \in contents }
    \cup { [kind |-> "raise", stop_reason |-> "", content |-> <<>>, exc |-> e] :
        e \in LlmExceptions }

\* what input() gives: a line, end of input, or Ctrl-C
InputLines ==
    { <<"q", "u", "i", "t">>, <<" ", "Q", "u", "i", "t", " ">>, <<"E", "X", "I", "T">>,
      <<"q">>, <<>>, <<" ", " ">>, <<"h", "i">>, <<" ", "A", "A", "P", "L", "?">> }

ChoiceLines ==
    { <<"y", "e", "s">>, <<" ", "Y", " ">>, <<"n", "o">>, <<>>, <<"y", "e", "a", "h">> }

----------------------------------------------------------------------------
(* Pure parts of the host *)

\* str.strip(), for the blank character
RECURSIVE lstrip(_)
lstrip(s) == IF s # <<>> /\ Head(s) = " " THEN lstrip(Tail(s)) ELSE s

RECURSIVE rstrip(_)
rstrip(s) ==
    IF s # <<>> /\ s[Len(s)] = " " THEN rstrip(SubSeq(s, 1, Len(s) - 1)) ELSE s

strip(s) == rstrip(lstrip(s))

is_quit_case_sensitive(user_input) ==
    user_input \in { <<"q", "u", "i", "t">>, <<"e", "x", "i", "t">>, <<"q">> }

\* user_input.lower() in ['quit', 'exit', 'q']
is_quit(user_input) ==
    lower(user_input) \in { <<"q", "u", "i", "t">>, <<"e", "x", "i", "t">>, <<"q">> }

is_yes_any_answer(choice) == choice # <<>>

\* choice in ['yes', 'y']
is_yes(choice) == choice \in { <<"y", "e", "s">>, <<"y">> }

\* the reconnect test of run_interactive
needs_connect_stale(tools, proceed) == ~proceed

needs_connect_forgetful(tools, proceed) == tools = <<>>

needs_connect(tools, proceed) == tools = <<>> /\ ~proceed

\* range(1, self.max_retries + 1)
attempt_range_short == 1..(max_retries - 1)

attempt_range_one_more == 1..(max_retries + 1)

attempt_range == 1..max_retries

\* the test before the backoff sleep
should_wait_always(attempt) == attempt <= max_retries

should_wait(attempt) == attempt < max_retries

\* the backoff delay after failed attempt `attempt`
backoff_delay_shifted(attempt) == base_delay * (2 ^ attempt)

backoff_delay(attempt) == base_delay * (2 ^ (attempt - 1))

\* discover_tools(): the new catalog and the value returned
discover_tools_accept_empty(tools, outcome) ==
    IF outcome.kind = "raise"
    THEN [ok |-> FALSE, available_tools |-> tools]
    ELSE [ok |-> TRUE, available_tools |-> outcome.tools]

discover_tools(tools, outcome) ==
    IF outcome.kind = "raise"
    THEN [ok |-> FALSE, available_tools |-> tools]
    ELSE [ok |-> outcome.tools # <<>>, available_tools |-> outcome.tools]

\* format_tools_for_claude()
format_tools_for_claude(tools) ==
    [i \in 1..Len(tools) |->
        [name |-> tools[i].name,
         description |-> tools[i].description,
         input_schema |-> tools[i].inputSchema]]

\* any(keyword in error_type.lower() or keyword in error_msg ...)
is_connection_error(exc) ==
    \E i \in 1..Len(connection_keywords) :
        \/ contains(lower(exc.type_name), connection_keywords[i])
        \/ contains(lower(exc.message), connection_keywords[i])

\* an exception that call_mcp_tool classifies as a connection-level failure
is_connection_failure(exc) ==
    exc # NoException /\ ~exc.timeout /\ is_connection_error(exc)

\* the exception that reaches the except clauses of call_mcp_tool
tool_exception(outcome) ==
    IF outcome.kind = "raise" THEN outcome.exc
    ELSE IF outcome.content # <<>> /\ ~HasText(outcome.content[1]) THEN AttributeError
    ELSE NoException

\* call_mcp_tool(): raised/exc say whether an exception leaves the call,
\* value is the string returned, available_tools the catalog afterwards
call_mcp_tool_keep_catalog(tools, tool_name, outcome) ==
    LET e == tool_exception(outcome) IN
    IF e = NoException
    THEN [raised |-> FALSE, exc |-> NoException, available_tools |-> tools,
          value |-> IF outcome.content # <<>>
                    THEN outcome.content[1].text
                    ELSE "Tool " \o tool_name \o " executed but returned no content"]
    ELSE IF e.timeout
    THEN [raised |-> FALSE, exc |-> NoException, available_tools |-> tools,
          value |-> "Tool " \o tool_name
                    \o " timed out after 30 seconds - MCP server may be unavailable"]
    ELSE IF is_connection_error(e)
    THEN [raised |-> FALSE, exc |-> NoException, available_tools |-> tools,
          value |-> ServerDownMessage]
    ELSE [raised |-> FALSE, exc |-> NoException, available_tools |-> tools,
          value |-> "Error calling tool " \o tool_name \o ": " \o Str(e.type_name)]

call_mcp_tool_clears_on_any_error(tools, tool_name, outcome) ==
    LET r == call_mcp_tool_keep_catalog(tools, tool_name, outcome) IN
    [r EXCEPT !.available_tools =
        IF tool_exception(outcome) = NoException THEN tools ELSE <<>>]

call_mcp_tool(tools, tool_name, outcome) ==
    LET e == tool_exception(outcome) IN
    IF e = NoException
    THEN [raised |-> FALSE, exc |-> NoException, available_tools |-> tools,
          value |-> IF outcome.content # <<>>
                    THEN outcome.content[1].text
                    ELSE "Tool " \o tool_name \o " executed but returned no content"]
    ELSE IF e.timeout
    THEN [raised |-> FALSE, exc |-> NoException, available_tools |-> tools,
          value |-> "Tool " \o tool_name
                    \o " timed out after 30 seconds - MCP server may be unavailable"]
    ELSE IF is_connection_error(e)
    THEN [raised |-> FALSE, exc |-> NoException, available_tools |-> <<>>,
          value |-> ServerDownMessage]
    ELSE [raised |-> FALSE, exc |-> NoException, available_tools |-> tools,
          value |-> "Error calling tool " \o tool_name \o ": " \o Str(e.type_name)]

\* the except clauses of get_claude_response
claude_error_message(exc) ==
    IF exc.timeout THEN "Claude request timed out after 30 seconds"
    ELSE IF contains(lower(exc.type_name),
                     <<"a", "u", "t", "h", "e", "n", "t", "i", "c", "a", "t", "i", "o", "n">>)
    THEN "Authentication error with Claude API. Please check your ANTHROPIC_API_KEY."
    ELSE "Error communicating with Claude: " \o Str(exc.type_name)

\* the except clauses of handle_tool_use
tool_use_error_message(exc) ==
    IF exc.timeout THEN "Tool execution timed out"
    ELSE "Error during tool execution: " \o Str(exc.type_name)

\* response.stop_reason == "tool_use" and claude_tools
wants_tool_use_unguarded(resp, tools_offered) == resp.stop_reason = "tool_use"

wants_tool_use(resp, tools_offered) ==
    resp.stop_reason = "tool_use" /\ tools_offered # <<>>

\* the messages of the first request
first_messages(message, tools_offered) ==
    <<[role |-> "user", content |-> message]>>
    \o (IF tools_offered = <<>> THEN <<SystemNote>> ELSE <<>>)

\* the part of get_claude_response after the first await: what the turn does
\* next ("return" a string, or enter "handle_tool_use")
after_first_response(outcome, tools_offered) ==
    IF outcome.kind = "raise"
    THEN [next |-> "return", value |-> claude_error_message(outcome.exc)]
    ELSE LET ft == first_text(outcome.content) IN
         IF ft.exc # NoException
         THEN [next |-> "return", value |-> claude_error_message(ft.exc)]
         ELSE IF wants_tool_use(outcome, tools_offered)
         THEN [next |-> "handle_tool_use", value |-> ""]
         ELSE [next |-> "return", value |-> ft.text]

\* the index of the next tool_use block at or after position `from`, 0 if none
next_tool_use_last(content, from) ==
    IF \E i \in from..Len(content) : content[i].type = "tool_use"
    THEN CHOOSE i \in from..Len(content) :
            /\ content[i].type = "tool_use"
            /\ \A j \in (i + 1)..Len(content) : content[j].type # "tool_use"
    ELSE 0

next_tool_use(content, from) ==
    IF \E i \in from..Len(content) : content[i].type = "tool_use"
    THEN CHOOSE i \in from..Len(content) :
            /\ content[i].type = "tool_use"
            /\ \A j \in from..(i - 1) : content[j].type # "tool_use"
    ELSE 0

\* the tool-result message appended after one invocation
tool_result_message(tool_call_id, tool_result) ==
    [role |-> "user",
     content |-> <<[type |-> "tool_result",
                    tool_use_id |-> tool_call_id,
                    content |-> tool_result]>>]

\* the tools of the follow-up request
second_request_tools_stale(tools, first_tools) == first_tools

second_request_tools(tools, first_tools) == format_tools_for_claude(tools)

\* the value handle_tool_use returns after the follow-up request
after_second_response_first_text(first, outcome) ==
    IF outcome.kind = "raise" THEN tool_use_error_message(outcome.exc)
    ELSE first_text(first.content).text

after_second_response(first, outcome) ==
    IF outcome.kind = "raise" THEN tool_use_error_message(outcome.exc)
    ELSE LET ft == first_text(outcome.content) IN
         IF ft.exc # NoException THEN tool_use_error_message(ft.exc)
         ELSE ft.text

\* cleanup_connections(): aclose() is called on a stack that is held and runs
\* every exit callback of the stack, also when one of them fails or the task
\* is cancelled while it waits.  aclose says what the call did: "returns",
\* "raises" (an Exception, which `except Exception` swallows) or "cancelled"
\* (CancelledError, a BaseException, which leaves cleanup_connections()); the
\* handles are unset in the finally clause in each case.  `closed` says that
\* aclose() was called, `raised` that cleanup_connections() itself raised.
cleanup_connections_no_finally(stack, session, open, aclose) ==
    [exit_stack |-> IF stack # 0 /\ aclose # "returns" THEN stack ELSE 0,
     mcp_session |-> IF stack # 0 /\ aclose # "returns" THEN session ELSE 0,
     live |-> IF stack # 0 THEN { r \in open : r[2] # stack } ELSE open,
     closed |-> stack # 0,
     raised |-> stack # 0 /\ aclose = "cancelled"]

cleanup_connections(stack, session, open, aclose) ==
    [exit_stack |-> 0,
     mcp_session |-> 0,
     live |-> IF stack # 0 THEN { r \in open : r[2] # stack } ELSE open,
     closed |-> stack # 0,
     raised |-> stack # 0 /\ aclose = "cancelled"]

----------------------------------------------------------------------------
(* State *)

VARIABLES
    pc,                     \* position of the single thread of control
    api_key,                \* ANTHROPIC_API_KEY is set in the environment
    host_bound,             \* main(): FinanceAnalyzerHost() returned, `host` is bound
    exit_status,            \* process exit status, -1 while running
    available_tools,        \* self.available_tools
    exit_stack,             \* self.exit_stack: 0 is None, else the stack's id
    mcp_session,            \* self.mcp_session: 0 is None, else the session's id
    proceed_without_tools,  \* self.proceed_without_tools
    attempt,                \* loop variable of connect_to_mcp_server
    caller,                 \* who called connect_to_mcp_server
    connected,              \* value returned by the last connect_to_mcp_server
    user_message,           \* argument of get_claude_response
    messages,               \* message history of the turn
    claude_tools,           \* local claude_tools of get_claude_response
    response,               \* first model response of the turn
    block_idx,              \* position in response.content of handle_tool_use
    final_response,         \* follow-up model response of the turn
    result,                 \* what get_claude_response returned
    live,                   \* open resources: <<kind, id of the owning stack>>
    discovered,             \* last successful discovery: its session and catalog
    last_discovery,         \* answer to the discovery of the current attempt
    conn_log,               \* attempts and sleeps of the current connect call
    requests,               \* completion requests of the turn
    tool_calls,             \* tool invocations of the turn
    conn_failed_on,         \* session of the last connection-class tool failure
    inputs_read,            \* lines read so far at the "You: " prompt
    last_cleanup,           \* the cleanup_connections() call of the last step
    last_input,             \* what input() did in the last step
    answered,               \* the last answer given to the yes/no prompt
    srv_key,                \* tool provider: ALPHA_VANTAGE_API_KEY is set
    srv_call                \* tool provider: the last operation it served

vars ==
    <<pc, api_key, host_bound, exit_status, available_tools, exit_stack,
      mcp_session, proceed_without_tools, attempt, caller, connected, user_message, messages,
      claude_tools, response, block_idx, final_response, result, live,
      discovered, last_discovery, conn_log, requests, tool_calls, conn_failed_on,
      inputs_read, last_cleanup, last_input, answered, srv_key, srv_call>>

host_vars == <<available_tools, exit_stack, mcp_session, proceed_without_tools>>

conn_vars == <<attempt, caller, connected, conn_log, last_discovery>>

turn_vars ==
    <<user_message, messages, claude_tools, response, block_idx, final_response,
      result, requests, tool_calls>>

srv_vars == <<srv_key, srv_call>>

NoResult == [done |-> FALSE, value |-> ""]

\* the last step did not call cleanup_connections()
NoCleanup ==
    [called |-> FALSE, follows_failed |-> FALSE, follows_cancelled |-> FALSE,
     stack |-> 0, session |-> 0, open |-> {},
     aclose_failed |-> FALSE, cancelled |-> FALSE, closed |-> FALSE,
     raised |-> FALSE, exit_stack |-> 0, mcp_session |-> 0, live |-> {}]

\* a call of cleanup_connections() on the host as it is, and what it gave;
\* follows_failed, follows_cancelled: the step before was a call in which
\* aclose() failed, was cancelled
CleanupCall(c, aclose) ==
    [called |-> TRUE, follows_failed |-> last_cleanup.aclose_failed,
     follows_cancelled |-> last_cleanup.cancelled,
     stack |-> exit_stack, session |-> mcp_session,
     open |-> live, aclose_failed |-> (aclose = "raises" /\ exit_stack # 0),
     cancelled |-> (aclose = "cancelled" /\ exit_stack # 0),
     closed |-> c.closed, raised |-> c.raised,
     exit_stack |-> c.exit_stack, mcp_session |-> c.mcp_session,
     live |-> c.live]

\* the last step did not call input()
NoInput == [at |-> "none", kind |-> "none", line |-> <<>>]

\* the last step called neither cleanup_connections() nor input()
Quiet ==
    /\ last_cleanup' = NoCleanup
    /\ last_input' = NoInput

\* the tool provider has served no operation
NoCall == [op |-> "none"]

NoDiscovery == [kind |-> "none", tools |-> <<>>, exc |-> NoException]

\* identity of the AsyncExitStack an attempt creates: an object distinct from
\* every stack the host still knows of
new_stack_id ==
    1 + (IF discovered.session > conn_failed_on THEN discovered.session
         ELSE conn_failed_on)

\* the host before main() runs
HostStart ==
    /\ pc = "start"
    /\ host_bound = FALSE
    /\ exit_status = -1
    /\ available_tools = <<>>
    /\ exit_stack = 0
    /\ mcp_session = 0
    /\ proceed_without_tools = FALSE
    /\ attempt = 0
    /\ caller = "none"
    /\ connected = FALSE
    /\ user_message = ""
    /\ messages = <<>>
    /\ claude_tools = <<>>
    /\ response = NoResponse
    /\ block_idx = 0
    /\ final_response = NoResponse
    /\ result = NoResult
    /\ live = {}
    /\ discovered = [session |-> 0, tools |-> <<>>]
    /\ last_discovery = NoDiscovery
    /\ conn_log = <<>>
    /\ requests = <<>>
    /\ tool_calls = <<>>
    /\ conn_failed_on = 0
    /\ inputs_read = 0
    /\ last_cleanup = NoCleanup
    /\ last_input = NoInput
    /\ answered = "none"

Init ==
    /\ HostStart
    /\ api_key \in BOOLEAN
    /\ srv_key = FALSE
    /\ srv_call = NoCall

----------------------------------------------------------------------------
(* main() and connect_to_mcp_server() *)

\* the locals of a turn are fresh at every call of get_claude_response
ResetTurn ==
    /\ messages' = <<>>
    /\ claude_tools' = <<>>
    /\ response' = NoResponse
    /\ block_idx' = 0
    /\ final_response' = NoResponse
    /\ result' = NoResult
    /\ requests' = <<>>
    /\ tool_calls' = <<>>

\* the locals of a returned connect_to_mcp_server() are gone
ForgetConnect ==
    /\ attempt' = 0
    /\ conn_log' = <<>>
    /\ last_discovery' = NoDiscovery
    /\ UNCHANGED <<caller, connected>>

\* the user interrupts the run while main()'s task is suspended in an await:
\* the task is cancelled, the CancelledError raised at the await is a
\* BaseException that no except clause of connect_to_mcp_server,
\* get_claude_response, handle_tool_use or run_interactive catches (line 98 is
\* skipped, it is not in a finally), and the frames unwind, their locals with
\* them, to the finally clause of main()
Cancelled ==
    /\ pc' = "main_finally"
    /\ ResetTurn
    /\ ForgetConnect
    /\ user_message' = ""
    /\ last_input' = [at |-> "await", kind |-> "interrupt", line |-> <<>>]

\* the call of connect_to_mcp_server(): the loop starts with attempt 1
CallConnect(who) ==
    /\ pc' = "conn_attempt"
    /\ attempt' = 1
    /\ caller' = who
    /\ conn_log' = <<>>
    /\ last_discovery' = NoDiscovery
    /\ UNCHANGED connected

\* main() running the shell whatever connect_to_mcp_server() returned
ReturnConnect_unchecked(value) ==
    /\ connected' = value
    /\ pc' = IF caller = "main"
             THEN "input"
             ELSE (IF value THEN "claude_first" ELSE "prompt")
    /\ UNCHANGED <<attempt, caller>>

\* the return of connect_to_mcp_server() to main() or to run_interactive()
ReturnConnect(value) ==
    /\ connected' = value
    /\ pc' = IF caller = "main"
             THEN (IF value THEN "input" ELSE "main_finally")
             ELSE (IF value THEN "claude_first" ELSE "prompt")
    /\ UNCHANGED <<attempt, caller>>

\* anthropic.Anthropic(api_key=...) returns the client, or raises
ClientOutcomes == {"client", "raise"}

\* FinanceAnalyzerHost.__init__: sys.exit(1) without the key and when the
\* construction of the client raises
init_exits(key, client) == ~key \/ client = "raise"

\* host = FinanceAnalyzerHost(): sys.exit(1) unwinds main() to its finally
\* clause with `host` unbound; otherwise main() calls connect_to_mcp_server()
HostInit ==
    /\ pc = "start"
    /\ \E client \in ClientOutcomes :
        IF init_exits(api_key, client)
        THEN /\ pc' = "main_finally"
             /\ host_bound' = FALSE
             /\ UNCHANGED conn_vars
        ELSE /\ CallConnect("main")
             /\ host_bound' = TRUE
    /\ Quiet
    /\ UNCHANGED <<api_key, exit_status, host_vars, turn_vars, live, discovered,
                   inputs_read, conn_failed_on, answered, srv_vars>>

\* what aclose() of the exit stack can do: return, raise an Exception, or
\* raise CancelledError when the user interrupts the run while it waits
AcloseOutcomes == {"returns", "raises", "cancelled"}

\* a stack that entered no context has nothing to exit: aclose() returns
aclose_outcomes(stack, open) ==
    IF \E r \in open : r[2] = stack THEN AcloseOutcomes ELSE {"returns"}

holds_stack_never(stack) == FALSE

\* `if self.exit_stack:` at the head of an attempt
holds_stack(stack) == stack # 0

\* the attempt goes on after its head: the print of line 59 is logged
AttemptGoesOn ==
    /\ pc' = "conn_transport"
    /\ conn_log' = Append(conn_log, [ev |-> "attempt", n |-> attempt])
    /\ last_discovery' = NoDiscovery
    /\ last_input' = NoInput
    /\ UNCHANGED <<attempt, caller, connected, turn_vars>>

\* head of one attempt: release a stack that is still held, make a new one;
\* a cancellation during the release leaves connect_to_mcp_server() with
\* the old stack released and no new one
AttemptBegin ==
    /\ pc = "conn_attempt"
    /\ IF ~holds_stack(exit_stack)
       THEN /\ exit_stack' = new_stack_id
            /\ last_cleanup' = NoCleanup
            /\ AttemptGoesOn
            /\ UNCHANGED <<mcp_session, live>>
       ELSE \E o \in aclose_outcomes(exit_stack, live) :
            LET c == cleanup_connections(exit_stack, mcp_session, live, o) IN
            /\ last_cleanup' = CleanupCall(c, o)
            /\ mcp_session' = c.mcp_session
            /\ live' = c.live
            /\ IF c.raised
               THEN /\ exit_stack' = c.exit_stack
                    /\ Cancelled
               ELSE /\ exit_stack' = new_stack_id
                    /\ AttemptGoesOn
    /\ UNCHANGED <<api_key, host_bound, exit_status, available_tools,
                   proceed_without_tools, discovered, inputs_read,
                   conn_failed_on, answered, srv_vars>>

\* enter_async_context(sse_client(url)) under wait_for(10 s)
OpenTransport ==
    /\ pc = "conn_transport"
    /\ \E o \in StepOutcomes :
        IF o = "ok"
        THEN /\ live' = live \cup {<<"transport", exit_stack>>}
             /\ pc' = "conn_session"
        ELSE /\ pc' = "conn_cleanup"
             /\ UNCHANGED live
    /\ Quiet
    /\ UNCHANGED <<api_key, host_bound, exit_status, host_vars, conn_vars, turn_vars,
                   discovered, inputs_read, conn_failed_on, answered, srv_vars>>

\* enter_async_context(ClientSession(read, write))
OpenSession ==
    /\ pc = "conn_session"
    /\ \E o \in {"ok", "error"} :
        IF o = "ok"
        THEN /\ live' = live \cup {<<"session", exit_stack>>}
             /\ mcp_session' = exit_stack
             /\ pc' = "conn_initialize"
        ELSE /\ pc' = "conn_cleanup"
             /\ UNCHANGED <<live, mcp_session>>
    /\ Quiet
    /\ UNCHANGED <<api_key, host_bound, exit_status, available_tools, exit_stack,
                   proceed_without_tools, conn_vars, turn_vars, discovered,
                   inputs_read, conn_failed_on, answered, srv_vars>>

\* mcp_session.initialize() under wait_for(10 s)
Initialize ==
    /\ pc = "conn_initialize"
    /\ \E o \in StepOutcomes :
        pc' = IF o = "ok" THEN "conn_discover" ELSE "conn_cleanup"
    /\ Quiet
    /\ UNCHANGED <<api_key, host_bound, exit_status, host_vars, conn_vars, turn_vars, live,
                   discovered, inputs_read, conn_failed_on, answered, srv_vars>>

\* discover_tools() and the test of its value
Discover ==
    /\ pc = "conn_discover"
    /\ \E o \in DiscoveryOutcomes :
        LET d == discover_tools(available_tools, o) IN
        /\ available_tools' = d.available_tools
        /\ last_discovery' = o
        /\ IF d.ok
           THEN /\ discovered' = [session |-> mcp_session, tools |-> d.available_tools]
                /\ ReturnConnect(TRUE)
           ELSE /\ pc' = "conn_cleanup"
                /\ UNCHANGED <<discovered, attempt, caller, connected>>
    /\ Quiet
    /\ UNCHANGED <<api_key, host_bound, exit_status, exit_stack, mcp_session,
                   proceed_without_tools, conn_log, turn_vars, live, inputs_read,
                   conn_failed_on, answered, srv_vars>>

\* the step of the for loop: the next attempt, or the return of False
NextAttempt ==
    IF attempt + 1 \in attempt_range
    THEN /\ attempt' = attempt + 1
         /\ pc' = "conn_attempt"
         /\ UNCHANGED <<caller, connected>>
    ELSE ReturnConnect(FALSE)

\* cleanup after a failed attempt, then the backoff test; a cancellation
\* during the cleanup leaves connect_to_mcp_server()
CleanupFailedAttempt ==
    /\ pc = "conn_cleanup"
    /\ \E o \in aclose_outcomes(exit_stack, live) :
        LET c == cleanup_connections(exit_stack, mcp_session, live, o) IN
        /\ last_cleanup' = CleanupCall(c, o)
        /\ exit_stack' = c.exit_stack
        /\ mcp_session' = c.mcp_session
        /\ live' = c.live
        /\ IF c.raised
           THEN Cancelled
           ELSE /\ IF should_wait(attempt)
                   THEN /\ pc' = "conn_sleep"
                        /\ UNCHANGED <<attempt, caller, connected>>
                   ELSE NextAttempt
                /\ last_input' = NoInput
                /\ UNCHANGED <<conn_log, last_discovery, turn_vars>>
    /\ UNCHANGED <<api_key, host_bound, exit_status, available_tools,
                   proceed_without_tools, discovered, inputs_read,
                   conn_failed_on, answered, srv_vars>>

\* asyncio.sleep(delay)
Backoff ==
    /\ pc = "conn_sleep"
    /\ conn_log' = Append(conn_log, [ev |-> "sleep", n |-> backoff_delay(attempt)])
    /\ NextAttempt
    /\ Quiet
    /\ UNCHANGED <<api_key, host_bound, exit_status, host_vars, last_discovery, turn_vars,
                   live, discovered, inputs_read, conn_failed_on, answered,
                   srv_vars>>

\* main() without its finally clause
MainFinally_without_cleanup ==
    /\ pc = "main_finally"
    /\ pc' = "module_finally"
    /\ Quiet
    /\ UNCHANGED <<api_key, host_bound, exit_status, host_vars, conn_vars, turn_vars, live,
                   discovered, inputs_read, conn_failed_on, answered, srv_vars>>

\* the finally clause of main(): host.cleanup(), when host is bound; whatever
\* it raises is swallowed
MainFinally ==
    /\ pc = "main_finally"
    /\ IF host_bound
       THEN \E o \in aclose_outcomes(exit_stack, live) :
            LET c == cleanup_connections(exit_stack, mcp_session, live, o) IN
            /\ last_cleanup' = CleanupCall(c, o)
            /\ exit_stack' = c.exit_stack
            /\ mcp_session' = c.mcp_session
            /\ live' = c.live
       ELSE /\ last_cleanup' = NoCleanup
            /\ UNCHANGED <<exit_stack, mcp_session, live>>
    /\ pc' = "module_finally"
    /\ last_input' = NoInput
    /\ UNCHANGED <<api_key, host_bound, exit_status, available_tools, proceed_without_tools,
                   conn_vars, turn_vars, discovered, inputs_read, conn_failed_on,
                   answered, srv_vars>>

\* the finally clause of the __main__ block: sys.exit(0)
ModuleFinally ==
    /\ pc = "module_finally"
    /\ exit_status' = 0
    /\ pc' = "exited"
    /\ Quiet
    /\ UNCHANGED <<api_key, host_bound, host_vars, conn_vars, turn_vars, live, discovered,
                   inputs_read, conn_failed_on, answered, srv_vars>>

----------------------------------------------------------------------------
(* run_interactive() *)

\* what input() does: returns a line, or raises EOFError, KeyboardInterrupt
\* or another Exception (an undecodable byte sequence, a closed stream)
InputEvents(lines) ==
    { [kind |-> "line", line |-> l] : l \in lines }
    \cup { [kind |-> "eof", line |-> <<>>], [kind |-> "interrupt", line |-> <<>>],
           [kind |-> "error", line |-> <<>>] }

breaks_loop_on_any_exception(kind) == kind # "line"

\* the except clauses of the loop: KeyboardInterrupt and EOFError break it,
\* any other Exception is reported and the loop goes on
breaks_loop(kind) == kind \in {"eof", "interrupt"}

\* input("You: ") and the dispatch of the line read
ReadInput ==
    /\ pc = "input"
    /\ \E ev \in InputEvents(InputLines) :
        LET user_input == strip(ev.line) IN
        /\ ResetTurn
        /\ last_input' = [at |-> "input", kind |-> ev.kind, line |-> ev.line]
        /\ IF ev.kind # "line"
           THEN /\ pc' = IF breaks_loop(ev.kind) THEN "main_finally" ELSE "input"
                /\ ForgetConnect
                /\ UNCHANGED <<user_message, inputs_read>>
           ELSE IF is_quit(user_input)
           THEN /\ pc' = "main_finally"
                /\ ForgetConnect
                /\ UNCHANGED <<user_message, inputs_read>>
           ELSE /\ inputs_read < MaxInputs
                /\ inputs_read' = inputs_read + 1
                /\ IF user_input = <<>>
                   THEN /\ pc' = "input"
                        /\ ForgetConnect
                        /\ UNCHANGED user_message
                   ELSE /\ user_message' = Str(user_input)
                        /\ IF needs_connect(available_tools, proceed_without_tools)
                           THEN CallConnect("shell")
                           ELSE /\ pc' = "claude_first"
                                /\ ForgetConnect
    /\ last_cleanup' = NoCleanup
    /\ UNCHANGED <<api_key, host_bound, exit_status, host_vars, live, discovered,
                   conn_failed_on, answered, srv_vars>>

\* input("Proceed without financial tools? (yes/no): ")
ProceedPrompt ==
    /\ pc = "prompt"
    /\ \E ev \in InputEvents(ChoiceLines) :
        LET choice == lower(strip(ev.line)) IN
        /\ last_input' = [at |-> "prompt", kind |-> ev.kind, line |-> ev.line]
        /\ IF ev.kind # "line"
           THEN /\ pc' = IF breaks_loop(ev.kind) THEN "main_finally" ELSE "input"
                /\ UNCHANGED <<proceed_without_tools, answered>>
           ELSE IF is_yes(choice)
           THEN /\ proceed_without_tools' = TRUE
                /\ answered' = "yes"
                /\ pc' = "claude_first"
           ELSE /\ pc' = "input"
                /\ answered' = "no"
                /\ UNCHANGED proceed_without_tools
    /\ last_cleanup' = NoCleanup
    /\ UNCHANGED <<api_key, host_bound, exit_status, available_tools, exit_stack, mcp_session,
                   conn_vars, turn_vars, live, discovered, inputs_read,
                   conn_failed_on, srv_vars>>

----------------------------------------------------------------------------
(* get_claude_response() and handle_tool_use() *)

\* a completion request as the client sends it, with the session and the
\* last successful discovery at the time of sending
Request(tools_none, tools, msgs) ==
    [tools_none |-> tools_none,
     tools |-> tools,
     messages |-> msgs,
     session |-> mcp_session,
     session_live |-> <<"session", mcp_session>> \in live,
     discovered |-> discovered,
     conn_failed_on |-> conn_failed_on,
     calls_before |-> Len(tool_calls)]

\* get_claude_response() up to the call of handle_tool_use or its return
ClaudeFirst ==
    /\ pc = "claude_first"
    /\ \E o \in LlmOutcomes(ResponseContents) :
        LET tools_offered == format_tools_for_claude(available_tools)
            msgs == first_messages(user_message, tools_offered)
            a == after_first_response(o, tools_offered)
        IN
        /\ claude_tools' = tools_offered
        /\ requests' = Append(requests, Request(tools_offered = <<>>, tools_offered, msgs))
        /\ response' = o
        /\ IF a.next = "return"
           THEN /\ messages' = msgs
                /\ result' = [done |-> TRUE, value |-> a.value]
                /\ pc' = "input"
                /\ UNCHANGED block_idx
           ELSE /\ messages' = Append(msgs, [role |-> "assistant", content |-> o.content])
                /\ block_idx' = 1
                /\ pc' = "handle_tool_use"
                /\ UNCHANGED result
    /\ Quiet
    /\ UNCHANGED <<api_key, host_bound, exit_status, host_vars, conn_vars, user_message,
                   final_response, tool_calls, live, discovered, inputs_read,
                   conn_failed_on, answered, srv_vars>>

\* one iteration of the loop of handle_tool_use that finds a tool_use block:
\* call_mcp_tool() and the append of its tool-result message
ToolCall ==
    /\ pc = "handle_tool_use"
    /\ next_tool_use(response.content, block_idx) # 0
    /\ \E o \in ToolOutcomes :
        LET i == next_tool_use(response.content, block_idx)
            block == response.content[i]
            \* without a session object the attribute access raises
            answer == IF mcp_session = 0
                      THEN [kind |-> "raise", content |-> <<>>, exc |-> AttributeError]
                      ELSE o
            r == call_mcp_tool(available_tools, block.name, answer)
        IN
        /\ tool_calls' = Append(tool_calls,
                [name |-> block.name, input |-> block.input, id |-> block.id,
                 exc |-> tool_exception(answer), raised |-> r.raised,
                 value |-> r.value, tools_before |-> available_tools,
                 tools_after |-> r.available_tools,
                 history |-> messages, requests_before |-> Len(requests)])
        /\ available_tools' = r.available_tools
        /\ conn_failed_on' = IF is_connection_failure(tool_exception(answer))
                             THEN mcp_session
                             ELSE conn_failed_on
        /\ IF r.raised
           THEN /\ result' = [done |-> TRUE, value |-> tool_use_error_message(r.exc)]
                /\ pc' = "input"
                /\ UNCHANGED <<messages, block_idx>>
           ELSE /\ messages' = Append(messages, tool_result_message(block.id, r.value))
                /\ block_idx' = i + 1
                /\ pc' = "handle_tool_use"
                /\ UNCHANGED result
    /\ UNCHANGED <<api_key, host_bound, exit_status, exit_stack, mcp_session,
                   proceed_without_tools, conn_vars, user_message, claude_tools,
                   response, final_response, requests, live, discovered,
                   inputs_read, answered, srv_vars>>
    /\ Quiet

\* the follow-up request of handle_tool_use and the return of its text
ClaudeSecond ==
    /\ pc = "handle_tool_use"
    /\ next_tool_use(response.content, block_idx) = 0
    /\ \E o \in LlmOutcomes(FinalResponseContents) :
        /\ requests' = Append(requests,
                Request(FALSE, second_request_tools(available_tools, claude_tools),
                        messages))
        /\ final_response' = o
        /\ result' = [done |-> TRUE, value |-> after_second_response(response, o)]
        /\ pc' = "input"
    /\ Quiet
    /\ UNCHANGED <<api_key, host_bound, exit_status, host_vars, conn_vars, user_message, messages,
                   claude_tools, response, block_idx, tool_calls, live, discovered,
                   inputs_read, conn_failed_on, answered, srv_vars>>

----------------------------------------------------------------------------

(* an interrupt while the host awaits *)

\* the awaits of network operations and of the backoff (the awaits of
\* aclose() are interrupted in the steps that call cleanup_connections())
InterruptibleAwaits ==
    {"conn_transport", "conn_session", "conn_initialize", "conn_discover",
     "conn_sleep", "claude_first", "handle_tool_use"}

\* the user interrupts the run during one of these awaits; the host object
\* keeps its fields
Interrupt ==
    /\ pc \in InterruptibleAwaits
    /\ Cancelled
    /\ last_cleanup' = NoCleanup
    /\ UNCHANGED <<api_key, host_bound, exit_status, host_vars, live, discovered,
                   conn_failed_on, inputs_read, answered, srv_vars>>

-----------------------------------------------------------------------------

Next ==
    \/ HostInit
    \/ AttemptBegin
    \/ OpenTransport
    \/ OpenSession
    \/ Initialize
    \/ Discover
    \/ CleanupFailedAttempt
    \/ Backoff
    \/ ReadInput
    \/ ProceedPrompt
    \/ ClaudeFirst
    \/ ToolCall
    \/ ClaudeSecond
    \/ Interrupt
    \/ MainFinally
    \/ ModuleFinally

Spec == Init /\ [][Next]_vars

\* the steps of the host that contain an await: each await is bounded by
\* asyncio.wait_for or ends without waiting for the peer (the entry of the
\* session context, asyncio.sleep, aclose() of the exit stack in the cleanups
\* of lines 61, 98 and 370), so each step ends
Awaits ==
    \/ AttemptBegin
    \/ OpenTransport
    \/ OpenSession
    \/ Initialize
    \/ Discover
    \/ CleanupFailedAttempt
    \/ Backoff
    \/ ClaudeFirst
    \/ ToolCall
    \/ ClaudeSecond
    \/ MainFinally

\* the steps the single thread of control takes without waiting
HostSteps ==
    \/ HostInit
    \/ ModuleFinally

\* the run in which every await ends, the thread of control goes on, and
\* the operator answers the yes/no prompt
FairSpec ==
    /\ Spec
    /\ WF_vars(Awaits)
    /\ WF_vars(HostSteps)
    /\ WF_vars(ProceedPrompt)

TypeOK ==
    /\ pc \in {"start", "conn_attempt", "conn_transport", "conn_session",
               "conn_initialize", "conn_discover", "conn_cleanup", "conn_sleep",
               "input", "prompt", "claude_first", "handle_tool_use",
               "main_finally", "module_finally", "exited"}
    /\ host_bound \in BOOLEAN
    /\ attempt \in 0..max_retries
    /\ exit_stack \in 0..(MaxInputs + 1)
    /\ mcp_session \in {0, exit_stack}
    /\ inputs_read \in 0..MaxInputs
    /\ Len(requests) <= 2

----------------------------------------------------------------------------
(* The tool provider, finance_mcp_server.py.  Its text is built from        *)
(* sequences of characters.  A JSON object is [type |-> "object", fields |-> *)
(* a function on its keys], a JSON array [type |-> "array", items |-> a     *)
(* sequence]; a dict nested in an object is the function on its keys.       *)

\* the character U+2022 of the formatted results
BULLET == "U+2022"

NA == <<"N", "/", "A">>

EmptyDict == <<>>

JsonObject(fields) == [type |-> "object", fields |-> fields, items |-> <<>>]

JsonArray(items) == [type |-> "array", fields |-> EmptyDict, items |-> items]

\* `key in data`
has_key(data, key) ==
    IF data.type = "object" THEN key \in DOMAIN data.fields
    ELSE \E i \in 1..Len(data.items) : data.items[i] = key

\* dict.get(key, default)
dict_get(d, key, default) == IF key \in DOMAIN d THEN d[key] ELSE default

NotConfiguredText ==
    <<"A", "l", "p", "h", "a", " ", "V", "a", "n", "t", "a", "g", "e", " ",
      "A", "P", "I", " ", "k", "e", "y", " ", "n", "o", "t", " ", "c", "o",
      "n", "f", "i", "g", "u", "r", "e", "d">>

make_api_request_unchecked(key, function, kwargs, answer) ==
    IF answer.kind = "request_error"
    THEN [data |-> JsonObject("error" :> (<<"A", "P", "I", " ", "r", "e", "q", "u", "e", "s", "t", " ", "f",
            "a", "i", "l", "e", "d", ":", " ">> \o answer.message)),
          sent |-> <<[function |-> function, kwargs |-> kwargs]>>]
    ELSE [data |-> answer.data,
          sent |-> <<[function |-> function, kwargs |-> kwargs]>>]

\* make_api_request(): without the key an error dict and no request; with it
\* the parsed answer of requests.get, or an error dict for a RequestException
make_api_request(key, function, kwargs, answer) ==
    IF ~key
    THEN [data |-> JsonObject("error" :> NotConfiguredText), sent |-> <<>>]
    ELSE IF answer.kind = "request_error"
    THEN [data |-> JsonObject("error" :> (<<"A", "P", "I", " ", "r", "e", "q", "u", "e", "s", "t", " ", "f",
            "a", "i", "l", "e", "d", ":", " ">> \o answer.message)),
          sent |-> <<[function |-> function, kwargs |-> kwargs]>>]
    ELSE [data |-> answer.data,
          sent |-> <<[function |-> function, kwargs |-> kwargs]>>]

\* what a tool operation gives: a string, or the exception it raised
Returned(text, sent) == [raised |-> FALSE, exc |-> "", value |-> text, sent |-> sent]

Raised(exc, sent) == [raised |-> TRUE, exc |-> exc, value |-> <<>>, sent |-> sent]

\* f"Error: {data['error']}"
error_text(data) == <<"E", "r", "r", "o", "r", ":", " ">> \o data.fields["error"]

\* get_stock_quote(symbol)
get_stock_quote(key, symbol_arg, answer) ==
    LET symbol == upper(symbol_arg)
        r == make_api_request(key, "GLOBAL_QUOTE", "symbol" :> symbol, answer)
        data == r.data
    IN
    IF has_key(data, "error") THEN Returned(error_text(data), r.sent)
    ELSE IF has_key(data, "Error Message")
    THEN Returned(<<"E", "r", "r", "o", "r", ":", " ", "I", "n", "v", "a", "l",
                    "i", "d", " ", "s", "y", "m", "b", "o", "l", " ", "'">> \o symbol
                  \o <<"'", " ", "o", "r", " ", "A", "P", "I", " ", "l", "i", "m",
                    "i", "t", " ", "r", "e", "a", "c", "h", "e", "d">>, r.sent)
    ELSE IF data.type # "object" THEN Raised("AttributeError", r.sent)
    ELSE LET quote == dict_get(data.fields, "Global Quote", EmptyDict) IN
         IF quote = EmptyDict
         THEN Returned(<<"N", "o", " ", "d", "a", "t", "a", " ", "f", "o", "u", "n",
                    "d", " ", "f", "o", "r", " ", "s", "y", "m", "b", "o", "l",
                    ":", " ">> \o symbol, r.sent)
         ELSE Returned(
                <<"S", "t", "o", "c", "k", " ", "Q", "u", "o", "t", "e", " ",
                  "f", "o", "r", " ">> \o symbol \o <<":", "\n">>
                \o <<BULLET, " ", "C", "u", "r", "r", "e", "n", "t", " ", "P",
                  "r", "i", "c", "e", ":", " ", "$">>
                \o dict_get(quote, "05. price", NA) \o <<"\n">>
                \o <<BULLET, " ", "C", "h", "a", "n", "g", "e", ":", " ">>
                \o dict_get(quote, "09. change", NA) \o <<" ", "(">>
                \o dict_get(quote, "10. change percent", NA) \o <<")", "\n">>
                \o <<BULLET, " ", "V", "o", "l", "u", "m", "e", ":", " ">>
                \o dict_get(quote, "06. volume", NA) \o <<"\n">>
                \o <<BULLET, " ", "L", "a", "s", "t", " ", "U", "p", "d", "a",
                  "t", "e", "d", ":", " ">>
                \o dict_get(quote, "07. latest trading day", NA) \o <<"\n">>,
                r.sent)

\* the decimal digits of the numbering of search results
Digits == <<"1", "2", "3", "4", "5", "6", "7", "8", "9">>

Min(a, b) == IF a < b THEN a ELSE b

\* matches[:5]
search_limit == 5

USD == <<"U", "S", "D">>

\* the lines of the search result for matches[from..], numbered from `from`
RECURSIVE match_lines(_, _)
match_lines(matches, from) ==
    IF from > Len(matches) THEN <<>>
    ELSE <<Digits[from], ".", " ">>
         \o dict_get(matches[from], "1. symbol", NA) \o <<" ", "-", " ">>
         \o dict_get(matches[from], "2. name", NA) \o <<"\n">>
         \o match_lines(matches, from + 1)

\* search_stocks(query)
search_stocks(key, query, answer) ==
    LET r == make_api_request(key, "SYMBOL_SEARCH", "keywords" :> query, answer)
        data == r.data
    IN
    IF has_key(data, "error") THEN Returned(error_text(data), r.sent)
    ELSE IF data.type # "object" THEN Raised("AttributeError", r.sent)
    ELSE LET matches == dict_get(data.fields, "bestMatches", <<>>) IN
         IF matches = <<>>
         THEN Returned(<<"N", "o", " ", "s", "t", "o", "c", "k", "s", " ", "f", "o",
                    "u", "n", "d", " ", "m", "a", "t", "c", "h", "i", "n", "g",
                    ":", " ">> \o query, r.sent)
         ELSE Returned(
                <<"S", "e", "a", "r", "c", "h", " ", "r", "e", "s", "u", "l",
                  "t", "s", " ", "f", "o", "r", " ", "'">> \o query
                \o <<"'", ":", "\n", "\n">>
                \o match_lines(SubSeq(matches, 1, Min(Len(matches), search_limit)), 1),
                r.sent)

\* get_crypto_price(symbol)
get_crypto_price(key, symbol_arg, answer) ==
    LET symbol == upper(symbol_arg)
        r == make_api_request(key, "CURRENCY_EXCHANGE_RATE",
                              ("from_currency" :> symbol) @@ ("to_currency" :> USD),
                              answer)
        data == r.data
    IN
    IF has_key(data, "error") THEN Returned(error_text(data), r.sent)
    ELSE IF has_key(data, "Error Message")
    THEN Returned(<<"E", "r", "r", "o", "r", ":", " ", "I", "n", "v", "a", "l",
                    "i", "d", " ", "c", "r", "y", "p", "t", "o", " ", "s", "y",
                    "m", "b", "o", "l", " ", "'">> \o symbol
                  \o <<"'", " ", "o", "r", " ", "A", "P", "I", " ", "l", "i", "m",
                    "i", "t", " ", "r", "e", "a", "c", "h", "e", "d">>, r.sent)
    ELSE IF data.type # "object" THEN Raised("AttributeError", r.sent)
    ELSE LET exchange_rate ==
                 dict_get(data.fields, "Realtime Currency Exchange Rate", EmptyDict)
         IN
         IF exchange_rate = EmptyDict
         THEN Returned(<<"N", "o", " ", "d", "a", "t", "a", " ", "f", "o", "u", "n",
                    "d", " ", "f", "o", "r", " ", "c", "r", "y", "p", "t", "o",
                    ":", " ">> \o symbol, r.sent)
         ELSE Returned(
                <<"C", "r", "y", "p", "t", "o", " ", "P", "r", "i", "c", "e",
                  " ", "f", "o", "r", " ">>
                \o dict_get(exchange_rate, "1. From_Currency Code", NA)
                \o <<":", "\n">>
                \o <<BULLET, " ", "C", "u", "r", "r", "e", "n", "t", " ", "P",
                  "r", "i", "c", "e", ":", " ", "$">>
                \o dict_get(exchange_rate, "5. Exchange Rate", NA)
                \o <<" ", "U", "S", "D", "\n">>
                \o <<BULLET, " ", "L", "a", "s", "t", " ", "U", "p", "d", "a",
                  "t", "e", "d", ":", " ">>
                \o dict_get(exchange_rate, "6. Last Refreshed", NA) \o <<"\n">>,
                r.sent)

\* dicts the market-data API answers with
QuoteFull ==
    ("05. price" :> <<"1", "8", "9", ".", "8", "4">>) @@
    ("09. change" :> <<"1", ".", "2", "0">>) @@
    ("10. change percent" :> <<"0", ".", "6", "3", "%">>) @@
    ("06. volume" :> <<"1", "0", "0">>) @@
    ("07. latest trading day" :> <<"2", "0", "2", "4", "-", "0", "1", "-", "0", "2">>)

QuotePartial ==
    ("05. price" :> <<"1", "8", "9", ".", "8", "4">>)

RateFull ==
    ("1. From_Currency Code" :> <<"B", "T", "C">>) @@
    ("5. Exchange Rate" :> <<"4", "3", "0", "0", "0", ".", "1">>) @@
    ("6. Last Refreshed" :> <<"2", "0", "2", "4", "-", "0", "1", "-", "0", "2", " ", "1", "0", ":", "0", "0", ":", "0", "0">>)

RatePartial ==
    ("5. Exchange Rate" :> <<"4", "3", "0", "0", "0", ".", "1">>)

MatchFull ==
    ("1. symbol" :> <<"A", "A", "P", "L">>) @@
    ("2. name" :> <<"A", "p", "p", "l", "e", " ", "I", "n", "c">>)

MatchPartial ==
    ("1. symbol" :> <<"A", "P", "L", "E">>)

JsonAnswer(data) == [kind |-> "json", data |-> data, message |-> <<>>]

\* what requests.get, raise_for_status and json() can give: a
\* RequestException, or the parsed body, an object or an array
ApiAnswers ==
    { [kind |-> "request_error", data |-> JsonObject(EmptyDict),
       message |-> <<"R", "e", "a", "d", " ", "t", "i", "m", "e", "d", " ", "o", "u", "t", ".">>],
      JsonAnswer(JsonObject(EmptyDict)),
      JsonAnswer(JsonObject("Error Message" :> <<"I", "n", "v", "a", "l", "i", "d", " ", "A", "P", "I", " ", "c", "a", "l", "l", ".">>)),
      JsonAnswer(JsonObject("Global Quote" :> EmptyDict)),
      JsonAnswer(JsonObject("Global Quote" :> QuoteFull)),
      JsonAnswer(JsonObject("Global Quote" :> QuotePartial)),
      JsonAnswer(JsonObject("bestMatches" :> <<>>)),
      JsonAnswer(JsonObject("bestMatches" :> <<MatchFull>>)),
      JsonAnswer(JsonObject("bestMatches" :>
          <<MatchFull, MatchPartial, MatchFull, MatchFull, MatchFull, MatchPartial>>)),
      JsonAnswer(JsonObject("Realtime Currency Exchange Rate" :> RateFull)),
      JsonAnswer(JsonObject("Realtime Currency Exchange Rate" :> RatePartial)),
      JsonAnswer(JsonArray(<<>>)) }

\* arguments of the tool operations
ServerArgs ==
    { <<"a", "a", "p", "l">>, <<"B", "t", "c">>, <<"A", "p", "p", "l", "e", " ", "I", "n", "c">>,
      <<>> }

\* the record of an operation the tool provider served
ServedCall(op, arg, answer, r) ==
    [op |-> op, arg |-> arg, answer |-> answer, raised |-> r.raised,
     exc |-> r.exc, value |-> r.value, sent |-> r.sent]

\* the state of the host, which the tool provider does not touch
host_state ==
    <<pc, api_key, host_bound, exit_status, host_vars, conn_vars, turn_vars, live,
      discovered, conn_failed_on, inputs_read, last_cleanup, last_input, answered>>

\* the tool provider starts with or without ALPHA_VANTAGE_API_KEY
ServerInit ==
    /\ HostStart
    /\ api_key = TRUE
    /\ srv_key \in BOOLEAN
    /\ srv_call = NoCall

ServeStockQuote ==
    /\ \E arg \in ServerArgs, answer \in ApiAnswers :
        srv_call' = ServedCall("get_stock_quote", arg, answer,
                               get_stock_quote(srv_key, arg, answer))
    /\ UNCHANGED <<host_state, srv_key>>

ServeSearchStocks ==
    /\ \E arg \in ServerArgs, answer \in ApiAnswers :
        srv_call' = ServedCall("search_stocks", arg, answer,
                               search_stocks(srv_key, arg, answer))
    /\ UNCHANGED <<host_state, srv_key>>

ServeCryptoPrice ==
    /\ \E arg \in ServerArgs, answer \in ApiAnswers :
        srv_call' = ServedCall("get_crypto_price", arg, answer,
                               get_crypto_price(srv_key, arg, answer))
    /\ UNCHANGED <<host_state, srv_key>>

ServerNext ==
    \/ ServeStockQuote
    \/ ServeSearchStocks
    \/ ServeCryptoPrice

ServerSpec == ServerInit /\ [][ServerNext]_vars

----------------------------------------------------------------------------
(* Properties *)

\* the attempts logged by the current call of connect_to_mcp_server
IsAttempt(e) == e.ev = "attempt"

Attempts == SelectSeq(conn_log, IsAttempt)

\* connect_to_mcp_server has just returned False to its caller
ConnectReturnedFalse ==
    \/ pc = "prompt"
    \/ /\ pc = "main_finally"
       /\ caller = "main"
       /\ ~connected
       /\ last_input.kind # "interrupt"

\* control is inside connect_to_mcp_server
InConnect ==
    pc \in {"conn_attempt", "conn_transport", "conn_session", "conn_initialize",
            "conn_discover", "conn_cleanup", "conn_sleep"}

\* C1: every completion request that carries a non-empty tool catalog carries
\* the catalog stored by the last successful discover_tools(), and that
\* discovery ran on the session that is held and open when the request is sent.
C1_CatalogFromLiveSession ==
    \A i \in 1..Len(requests) :
        requests[i].tools # <<>> =>
            /\ requests[i].session # 0
            /\ requests[i].session_live
            /\ requests[i].discovered.session = requests[i].session
            /\ requests[i].tools = format_tools_for_claude(requests[i].discovered.tools)

\* a catalog is offered on a connection that is not the first one made
C1_Witness ==
    \E i \in 1..Len(requests) :
        /\ requests[i].tools # <<>>
        /\ requests[i].session > 1
        /\ caller = "shell"

\* C2: when all max_retries attempts fail, connect_to_mcp_server makes exactly
\* max_retries attempts (numbered 1..max_retries, never more), returns False
\* (unless the user interrupts the last cleanup), and available_tools is empty
\* afterwards.
C2_ExhaustionReturnsFalse ==
    /\ [](Len(Attempts) <= max_retries)
    /\ [](ConnectReturnedFalse =>
            /\ Len(Attempts) = max_retries
            /\ \A i \in 1..Len(Attempts) : Attempts[i].n = i
            /\ available_tools = <<>>)
    /\ [][(pc = "conn_cleanup" /\ attempt = max_retries /\ ~last_cleanup'.cancelled) =>
            (~connected' /\ pc' \in {"prompt", "main_finally"})]_vars

\* the reconnect of the shell failed max_retries times, the last time because
\* the discovery failed
C2_Witness ==
    /\ pc = "prompt"
    /\ Len(Attempts) = max_retries
    /\ last_discovery.kind # "none"

\* C3: the delay before attempt i > 1 is base_delay * 2^(i-2), exactly one delay
\* separates consecutive attempts, and no delay follows the last failed attempt
\* or a successful attempt.
C3_BackoffDelays ==
    /\ conn_log # <<>> => conn_log[1] = [ev |-> "attempt", n |-> 1]
    /\ \A j \in 1..Len(conn_log) :
        /\ (conn_log[j].ev = "attempt" /\ conn_log[j].n > 1) =>
              /\ j >= 3
              /\ conn_log[j - 1] =
                    [ev |-> "sleep", n |-> base_delay * (2 ^ (conn_log[j].n - 2))]
              /\ conn_log[j - 2] = [ev |-> "attempt", n |-> conn_log[j].n - 1]
        /\ conn_log[j].ev = "sleep" =>
              /\ j >= 2
              /\ conn_log[j - 1].ev = "attempt"
              /\ conn_log[j - 1].n < max_retries
              /\ (j < Len(conn_log) => conn_log[j + 1].ev = "attempt")
    /\ (~InConnect /\ conn_log # <<>>) => conn_log[Len(conn_log)].ev = "attempt"

\* the third attempt of a reconnect succeeded after the delays 1 and 2
C3_Witness ==
    /\ pc = "claude_first"
    /\ connected
    /\ Len(conn_log) = 5
    /\ conn_log[2].n = 1
    /\ conn_log[4].n = 2

\* everything but the catalog, the position and the record of the discovery
DiscoveryFrame ==
    <<api_key, exit_status, exit_stack, mcp_session, proceed_without_tools, attempt,
      caller, connected, conn_log, turn_vars, live, discovered,
      conn_failed_on, inputs_read>>

\* C4: a discovery answered with an empty list has the effect of a discovery that
\* timed out or failed: discover_tools returns failure, the catalog is empty, the
\* attempt goes to its cleanup, which releases what the attempt acquired and is
\* followed by the backoff or by the return of False (or, when the user
\* interrupts the cleanup, by the finally clause of main()).
C4_EmptyDiscoveryFails ==
    /\ [][(/\ pc = "conn_discover"
            /\ last_input'.kind # "interrupt"
            /\ last_discovery'.tools = <<>>) =>
            /\ pc' = "conn_cleanup"
            /\ available_tools' = <<>>
            /\ UNCHANGED DiscoveryFrame]_vars
    /\ [][(pc = "conn_cleanup" /\ last_discovery.kind # "none") =>
            /\ exit_stack' = 0
            /\ mcp_session' = 0
            /\ live' = {}
            /\ \/ last_cleanup'.cancelled /\ pc' = "main_finally"
               \/ IF attempt < max_retries
                  THEN pc' = "conn_sleep"
                  ELSE ~connected' /\ pc' \in {"prompt", "main_finally"}]_vars

\* a discovery that succeeded with an empty list has sent the attempt to cleanup
C4_Witness ==
    /\ pc = "conn_cleanup"
    /\ last_discovery.kind = "response"
    /\ last_discovery.tools = <<>>
    /\ available_tools = <<>>

\* the exceptions of call_mcp_tool whose type name or message text matches a
\* connection keyword
KeywordMatching ==
    { e \in ToolExceptions \cup {AttributeError} : is_connection_error(e) }

MatchesKeywords(exc) == exc \in KeywordMatching

\* those that call_mcp_tool classifies as connection-level failures
ConnectionClass == { e \in KeywordMatching : is_connection_failure(e) }

\* C5 as stated: call_mcp_tool never raises and returns a string, and whenever
\* the exception's type name or message matches the connection-keyword set the
\* catalog is empty afterwards.
C5_AsStated ==
    \A j \in 1..Len(tool_calls) :
        /\ ~tool_calls[j].raised
        /\ tool_calls[j].value \in STRING
        /\ MatchesKeywords(tool_calls[j].exc) => tool_calls[j].tools_after = <<>>

\* C5 as amended: call_mcp_tool never raises and returns a string; whenever the
\* exception is not an asyncio.TimeoutError and its type name or message matches
\* the connection-keyword set, the catalog is empty afterwards; an
\* asyncio.TimeoutError, whose type name contains "timeout", leaves the catalog
\* as it was.
C5_NeverRaisesClearsOnConnectionError ==
    \A j \in 1..Len(tool_calls) :
        /\ ~tool_calls[j].raised
        /\ tool_calls[j].value \in STRING
        /\ (MatchesKeywords(tool_calls[j].exc) /\ ~tool_calls[j].exc.timeout) =>
              tool_calls[j].tools_after = <<>>
        /\ tool_calls[j].exc.timeout =>
              tool_calls[j].tools_after = tool_calls[j].tools_before

\* a ReadTimeout, which is not an asyncio.TimeoutError, cleared a catalog
C5_Witness ==
    \E j \in 1..Len(tool_calls) :
        /\ tool_calls[j].exc = ReadTimeoutError
        /\ tool_calls[j].tools_before # <<>>
        /\ tool_calls[j].tools_after = <<>>
        /\ tool_calls[j].value = ServerDownMessage

\* the first response of the turn does not lead to tool use
NoToolUseCase ==
    /\ response.kind = "response"
    /\ response.stop_reason # "tool_use" \/ claude_tools = <<>>

\* C6: when the first response's stop reason is not tool_use, or it is tool_use
\* and no catalog was offered, get_claude_response returns the text of the
\* response (that of its leading text block) unchanged, invokes no tool and
\* sends no second request.
C6_DirectAnswer ==
    NoToolUseCase =>
        /\ result.done
        /\ pc # "handle_tool_use"
        /\ tool_calls = <<>>
        /\ Len(requests) = 1
        /\ final_response = NoResponse
        /\ (response.content # <<>> /\ HasText(response.content[1])) =>
              result.value = response.content[1].text

\* a tool_use response to a request without catalog was answered by its text
C6_Witness ==
    /\ response.kind = "response"
    /\ response.stop_reason = "tool_use"
    /\ response.content = <<TextBlock("Let me check."), ToolUse1>>
    /\ claude_tools = <<>>
    /\ result = [done |-> TRUE, value |-> "Let me check."]

\* the tool_use blocks of the first response, in the order of the response
IsToolUse(b) == b.type = "tool_use"

ToolUses == SelectSeq(response.content, IsToolUse)

\* the turn is over: get_claude_response has returned
TurnDone == result.done

\* C7: with a non-empty catalog and a first response with stop reason tool_use
\* and one tool_use block, at any position, the turn makes exactly one tool
\* invocation with the block's name and arguments, the second request's history
\* holds a tool-result entry with the block's id, and the text of the second
\* response is what the turn returns.
C7_OneToolInvocation ==
    ( /\ TurnDone
      /\ response.kind = "response"
      /\ response.stop_reason = "tool_use"
      /\ claude_tools # <<>>
      /\ Len(ToolUses) = 1 ) =>
        /\ Len(tool_calls) = 1
        /\ tool_calls[1].name = ToolUses[1].name
        /\ tool_calls[1].input = ToolUses[1].input
        /\ Len(requests) = 2
        /\ \E k \in 3..Len(requests[2].messages) :
              /\ requests[2].messages[k].content[1].type = "tool_result"
              /\ requests[2].messages[k].content[1].tool_use_id = ToolUses[1].id
        /\ ( /\ final_response.kind = "response"
             /\ final_response.content # <<>>
             /\ HasText(final_response.content[1]) ) =>
              result.value = final_response.content[1].text

\* C8: a turn sends at most two requests, every tool invocation lies between
\* the first and the second, and once the second response is there the turn is
\* over with that response's text as its result, whatever its stop reason.
C8_SingleRound ==
    /\ Len(requests) <= 2
    /\ \A j \in 1..Len(tool_calls) : tool_calls[j].requests_before = 1
    /\ Len(requests) = 2 =>
          /\ requests[2].calls_before = Len(tool_calls)
          /\ TurnDone
          /\ pc \notin {"claude_first", "handle_tool_use"}
    /\ ( /\ final_response.kind = "response"
         /\ final_response.content # <<>>
         /\ HasText(final_response.content[1]) ) =>
          result = [done |-> TRUE, value |-> final_response.content[1].text]

\* a second response with stop reason tool_use and a tool_use block ended the
\* turn with its text
C8_Witness ==
    /\ final_response.kind = "response"
    /\ final_response.stop_reason = "tool_use"
    /\ final_response.content = <<TextBlock("Let me check."), ToolUse2>>
    /\ Len(tool_calls) = 1
    /\ Len(requests) = 2
    /\ result.value = "Let me check."
    /\ pc = "input"

\* the history after the first j tool invocations of handle_tool_use
HistoryAfter(j) ==
    << [role |-> "user", content |-> user_message],
       [role |-> "assistant", content |-> response.content] >>
    \o [i \in 1..j |-> tool_result_message(ToolUses[i].id, tool_calls[i].value)]

\* C9: handle_tool_use appends the assistant message, then invokes the k
\* tool_use blocks in the order of the response, each invocation seeing the
\* tool-result messages of all earlier ones; failed invocations yield their
\* tool-result message too, and the second request carries
\* [user, assistant, result_1, ..., result_k].
C9_SequentialToolCalls ==
    (pc = "handle_tool_use" \/ tool_calls # <<>> \/ Len(requests) = 2) =>
        /\ Len(tool_calls) <= Len(ToolUses)
        /\ \A j \in 1..Len(tool_calls) :
              /\ tool_calls[j].id = ToolUses[j].id
              /\ tool_calls[j].name = ToolUses[j].name
              /\ tool_calls[j].input = ToolUses[j].input
              /\ tool_calls[j].history = HistoryAfter(j - 1)
        /\ messages = HistoryAfter(Len(tool_calls))
        /\ Len(requests) = 2 =>
              /\ Len(tool_calls) = Len(ToolUses)
              /\ requests[2].messages = HistoryAfter(Len(ToolUses))

\* two blocks: the first invocation failed, the second ran and returned text,
\* and the second request carries both results
C9_Witness ==
    /\ Len(requests) = 2
    /\ Len(tool_calls) = 2
    /\ tool_calls[1].exc = BadSymbolError
    /\ tool_calls[2].exc = NoException
    /\ tool_calls[2].value = "AAPL: $150.00"
    /\ Len(requests[2].messages) = 4

\* C10: a connection-class tool failure empties the catalog, and every later
\* request that offers a catalog offers one discovered on a connection made
\* after the failure.
C10_NoToolsUntilRediscovery ==
    /\ \A j \in 1..Len(tool_calls) :
          tool_calls[j].exc \in ConnectionClass =>
              tool_calls[j].tools_after = <<>>
    /\ \A i \in 1..Len(requests) :
          requests[i].tools # <<>> =>
              requests[i].discovered.session > requests[i].conn_failed_on
    /\ (conn_failed_on # 0 /\ discovered.session <= conn_failed_on) =>
          available_tools = <<>>

\* after a failure and a rediscovery the catalog is offered, fails again in the
\* same turn, and the follow-up request offers no tools
C10_Witness ==
    /\ Len(requests) = 2
    /\ requests[1].conn_failed_on # 0
    /\ requests[1].tools # <<>>
    /\ requests[2].tools = <<>>
    /\ requests[2].conn_failed_on = requests[2].session

----------------------------------------------------------------------------
(* Cleanup, startup and the shell *)

\* C11 as stated: a call of cleanup_connections() never raises and leaves
\* exit_stack and mcp_session unset, also when aclose() fails; a call on a
\* host that is already cleaned closes nothing, raises nothing and changes
\* nothing.
C11_CleanupNeverRaises ==
    last_cleanup.called =>
        /\ ~last_cleanup.raised
        /\ last_cleanup.exit_stack = 0
        /\ last_cleanup.mcp_session = 0
        /\ (last_cleanup.stack = 0 /\ last_cleanup.session = 0) =>
              /\ ~last_cleanup.closed
              /\ last_cleanup.live = last_cleanup.open

\* C11: a call of cleanup_connections() raises nothing when aclose() returns
\* or fails with an Exception, and raises (CancelledError) exactly when the
\* task is cancelled while aclose() waits; in each case it leaves exit_stack
\* and mcp_session unset; a call on a host that is already cleaned closes
\* nothing, raises nothing and changes nothing, so the attempt that follows a
\* cleanup starts without a stack, a session or an open resource.
C11_CleanupUnsetsHandlesIdempotent ==
    /\ last_cleanup.called =>
        /\ last_cleanup.raised = last_cleanup.cancelled
        /\ last_cleanup.aclose_failed => ~last_cleanup.raised
        /\ ~last_cleanup.closed => ~last_cleanup.raised
        /\ last_cleanup.exit_stack = 0
        /\ last_cleanup.mcp_session = 0
        /\ (last_cleanup.stack = 0 /\ last_cleanup.session = 0) =>
              /\ ~last_cleanup.closed
              /\ last_cleanup.live = last_cleanup.open
    /\ (last_cleanup.called /\ pc # "conn_transport") =>
        /\ exit_stack = 0
        /\ mcp_session = 0
        /\ live = last_cleanup.live
    /\ (last_cleanup.called /\ pc \in {"conn_attempt", "conn_sleep"}) => live = {}

\* the call in the finally clause of main(), on the host that a call
\* cancelled by an interrupt had already cleaned
C11_Witness ==
    /\ pc = "module_finally"
    /\ last_cleanup.called
    /\ last_cleanup.follows_cancelled
    /\ last_cleanup.stack = 0
    /\ last_cleanup.session = 0
    /\ ~last_cleanup.closed
    /\ ~last_cleanup.raised


\* C12: without ANTHROPIC_API_KEY the run is fatal at startup: no connection
\* attempt and no completion request is ever made, the process terminates,
\* and its exit status is not zero.
C12_MissingKeyIsFatal ==
    ~api_key =>
        /\ pc \in {"start", "main_finally", "module_finally", "exited"}
        /\ caller = "none"
        /\ conn_log = <<>>
        /\ exit_stack = 0
        /\ requests = <<>>
        /\ pc = "exited" => exit_status # 0

\* the lines of InputLines that are quit commands, as typed
QuitLines ==
    { <<"q", "u", "i", "t">>, <<" ", "Q", "u", "i", "t", " ">>, <<"E", "X", "I", "T">>,
      <<"q">> }

\* the run has left the loop of run_interactive
LoopLeft == pc \in {"main_finally", "module_finally", "exited"}

\* C13: a line read at the "You: " prompt that is quit, exit or q in any case,
\* blanks around it ignored, ends the loop with that read, whatever the
\* catalog and the operator's choice are: the step makes no connection
\* attempt and no completion request, and once the loop is left no input is
\* read, no attempt is made and no request is sent.
C13_QuitEndsLoop ==
    /\ [][(pc = "input" /\ last_input'.kind = "line" /\ last_input'.line \in QuitLines)
            => /\ pc' = "main_finally"
               /\ requests' = <<>>
               /\ tool_calls' = <<>>
               /\ conn_log' = <<>>
               /\ UNCHANGED <<host_vars, live>>]_vars
    /\ [][LoopLeft
            => /\ LoopLeft'
               /\ last_input' = NoInput
               /\ UNCHANGED <<requests, tool_calls, conn_log, available_tools,
                              proceed_without_tools>>]_vars

\* Quit with blanks around it, read while the catalog is empty and the operator
\* has not chosen to proceed without tools
C13_Witness ==
    /\ pc = "main_finally"
    /\ last_input.at = "input"
    /\ last_input.line = <<" ", "Q", "u", "i", "t", " ">>
    /\ available_tools = <<>>
    /\ ~proceed_without_tools

\* the lines of InputLines that are questions, and the lines of ChoiceLines
\* that say yes, as typed
QuestionLines == { <<"h", "i">>, <<" ", "A", "A", "P", "L", "?">> }

YesLines == { <<"y", "e", "s">>, <<" ", "Y", " ">> }

\* C14: a question read while the catalog is empty and the operator has not
\* chosen to proceed makes run_interactive call connect_to_mcp_server() first,
\* and once: a call starts only at the read of a line; the yes/no prompt is
\* reached only by a call that returned False; the question reaches
\* get_claude_response only if no reconnect was needed, or the call returned
\* True, or the answer to the prompt was yes; any other answer drops the
\* question without a completion request.
C14_ReconnectBeforeDispatch ==
    /\ [][(/\ pc = "input"
           /\ last_input'.kind = "line"
           /\ last_input'.line \in QuestionLines
           /\ available_tools = <<>>
           /\ ~proceed_without_tools)
            => /\ pc' = "conn_attempt"
               /\ caller' = "shell"
               /\ attempt' = 1
               /\ requests' = <<>>]_vars
    /\ [][(pc' = "conn_attempt" /\ ~InConnect) => pc \in {"start", "input"}]_vars
    /\ [][pc' = "prompt" => (InConnect /\ caller = "shell" /\ ~connected')]_vars
    /\ [][pc' = "claude_first"
            => \/ /\ pc = "input"
                  /\ available_tools # <<>> \/ proceed_without_tools
               \/ /\ InConnect
                  /\ caller = "shell"
                  /\ connected'
                  /\ available_tools' # <<>>
               \/ /\ pc = "prompt"
                  /\ last_input'.line \in YesLines]_vars
    /\ [][(pc = "prompt" /\ last_input'.kind = "line" /\ last_input'.line \notin YesLines)
            => /\ pc' = "input"
               /\ requests' = <<>>
               /\ tool_calls' = <<>>
               /\ ~result'.done]_vars

\* a question met a failed reconnect, the operator answered no, and the
\* shell is back at its prompt without a request
C14_Witness ==
    /\ pc = "input"
    /\ last_input.at = "prompt"
    /\ last_input.line = <<"n", "o">>
    /\ ~connected
    /\ Len(Attempts) = max_retries
    /\ requests = <<>>

\* C15 as stated: once the operator has answered the yes/no prompt, whatever
\* the answer, the shell never again attempts a reconnect and never again
\* offers the prompt.
C15_AnyAnswerIsSticky ==
    answered # "none" => (~InConnect /\ pc # "prompt")

\* C15: a yes to the prompt is sticky for the rest of the session: the flag
\* stays set, the shell never again attempts a reconnect or offers the
\* prompt, and every later question goes to the model at once; any other
\* answer is not remembered: the next question read with an empty catalog
\* makes the shell call connect_to_mcp_server() again.
C15_YesIsSticky ==
    /\ [](answered = "yes" =>
            (proceed_without_tools /\ ~InConnect /\ pc # "prompt"))
    /\ [][(/\ pc = "input"
           /\ answered = "yes"
           /\ last_input'.kind = "line"
           /\ last_input'.line \in QuestionLines)
            => (pc' = "claude_first" /\ answered' = "yes")]_vars
    /\ [][(/\ pc = "input"
           /\ answered = "no"
           /\ available_tools = <<>>
           /\ last_input'.kind = "line"
           /\ last_input'.line \in QuestionLines)
            => (pc' = "conn_attempt" /\ caller' = "shell")]_vars

\* a question read after an earlier yes goes to the model without a reconnect
C15_Witness ==
    /\ pc = "claude_first"
    /\ answered = "yes"
    /\ last_input.at = "input"
    /\ last_input.line \in QuestionLines
    /\ available_tools = <<>>

\* the message history of a request holds the system note
HasSystemNote(msgs) ==
    \E k \in 1..Len(msgs) :
        msgs[k].role = "system" /\ msgs[k].content = SystemNote.content

\* C16: a completion request, the first of a turn or the follow-up after the
\* tool calls, carries the system note exactly if it is sent with an empty
\* tool catalog.
C16_NoteIffNoTools ==
    \A i \in 1..Len(requests) :
        (requests[i].tools = <<>>) <=> HasSystemNote(requests[i].messages)

\* the messages a failed completion request may be reported with
TimeoutMessages ==
    {"Claude request timed out after 30 seconds", "Tool execution timed out"}

AuthenticationMessage ==
    "Authentication error with Claude API. Please check your ANTHROPIC_API_KEY."

GenericMessages(exc) ==
    {"Error communicating with Claude: " \o Str(exc.type_name),
     "Error during tool execution: " \o Str(exc.type_name)}

\* the string returned for a failed request is the one its failure calls for
Classified(exc, value) ==
    IF exc = AsyncTimeoutError THEN value \in TimeoutMessages
    ELSE IF exc = AuthenticationError THEN value = AuthenticationMessage
    ELSE value \in GenericMessages(exc)

\* C17: when a completion request of a turn fails, the first one or the
\* follow-up after the tool calls, get_claude_response returns a string: a
\* timeout message for a timeout, the authentication message for an
\* authentication error, and a generic message that names the kind of the
\* error for any other failure.
C17_RequestFailuresClassified ==
    TurnDone =>
        /\ response.kind = "raise" => Classified(response.exc, result.value)
        /\ final_response.kind = "raise" =>
              Classified(final_response.exc, result.value)

----------------------------------------------------------------------------
(* Resources and the loop of the shell *)

Open(kind) == { r \in live : r[1] = kind }

\* C19: at every point at most one transport and at most one session are
\* open, and what is open belongs to the stack the host holds; an attempt
\* starts to connect with nothing open; after a failed attempt everything it
\* acquired is released before the backoff, before the next attempt and
\* before connect_to_mcp_server() returns False.
C19_OnePairNoLeak ==
    /\ Cardinality(Open("transport")) <= 1
    /\ Cardinality(Open("session")) <= 1
    /\ \A r \in live : r[2] = exit_stack /\ exit_stack # 0
    /\ pc = "conn_transport" => live = {}
    /\ (pc = "conn_sleep" \/ (pc = "conn_attempt" /\ attempt > 1) \/ ConnectReturnedFalse)
        => (live = {} /\ exit_stack = 0 /\ mcp_session = 0)

\* a reconnect attempt of the shell that had opened its transport and its
\* session failed, and the shell is about to back off with everything closed
C19_Witness ==
    /\ pc = "conn_sleep"
    /\ caller = "shell"
    /\ last_cleanup.called
    /\ last_cleanup.open = {<<"transport", last_cleanup.stack>>,
                            <<"session", last_cleanup.stack>>}
    /\ live = {}

\* control is inside the loop of run_interactive
InLoop ==
    \/ pc \in {"input", "prompt", "claude_first", "handle_tool_use"}
    \/ InConnect /\ caller = "shell"

\* C20: an exception other than EOFError and KeyboardInterrupt that is raised
\* while the shell handles an input does not end the loop: the shell is at
\* its "You: " prompt again, the host as it was; the loop is left only from
\* a read, on a quit command, on end of input or on an interrupt, or from
\* an await that the user interrupts.
C20_LoopSurvivesExceptions ==
    /\ [][(InLoop /\ last_input'.kind = "error")
            => /\ pc' = "input"
               /\ UNCHANGED <<host_vars, live, exit_status>>]_vars
    /\ [][(InLoop /\ ~InLoop')
            => /\ pc' = "main_finally"
               /\ \/ /\ pc = "input"
                     /\ last_input'.kind = "line"
                     /\ last_input'.line \in QuitLines
                  \/ /\ pc \in {"input", "prompt"}
                     /\ last_input'.kind \in {"eof", "interrupt"}
                  \/ /\ pc \in InterruptibleAwaits \cup {"conn_attempt", "conn_cleanup"}
                     /\ last_input'.kind = "interrupt"]_vars

\* input() raised an unexpected exception at the yes/no prompt, after a
\* failed reconnect, and the shell is back at its "You: " prompt
C20_Witness ==
    /\ pc = "input"
    /\ last_input.at = "prompt"
    /\ last_input.kind = "error"
    /\ ~connected
    /\ exit_status = -1

----------------------------------------------------------------------------
(* The tool provider *)

NotConfigured ==
    <<"n", "o", "t", " ", "c", "o", "n", "f", "i", "g", "u", "r", "e", "d">>

\* C18: without ALPHA_VANTAGE_API_KEY each of get_stock_quote, search_stocks
\* and get_crypto_price, for every argument and whatever the market-data API
\* would answer, returns a string that contains "not configured", sends no
\* request and raises nothing.
C18_NotConfiguredWithoutKey ==
    (srv_call.op # "none" /\ ~srv_key) =>
        /\ ~srv_call.raised
        /\ contains(srv_call.value, NotConfigured)
        /\ srv_call.sent = <<>>

\* search_stocks served without the key, for an answer of the API that makes
\* the operation raise when the key is set
C18_Witness ==
    /\ ~srv_key
    /\ srv_call.op = "search_stocks"
    /\ srv_call.arg = <<"A", "p", "p", "l", "e", " ", "I", "n", "c">>
    /\ srv_call.answer = JsonAnswer(JsonArray(<<>>))
    /\ search_stocks(TRUE, srv_call.arg, srv_call.answer).raised

----------------------------------------------------------------------------
(* Termination, exit paths and the frame of the catalog *)

\* C21: when every await ends and the operator answers the yes/no prompt,
\* connect_to_mcp_server() returns, after at most max_retries attempts, so
\* that none of its steps stays pending; the prompt is left; and every
\* question given to get_claude_response yields a result with the shell at
\* its "You: " prompt again, or is abandoned because the user interrupts the
\* run, so that no completion request and no tool call stays pending.
C21_OperationsTerminate ==
    /\ [](Len(Attempts) <= max_retries)
    /\ InConnect ~> ~InConnect
    /\ (pc = "prompt") ~> (pc # "prompt")
    /\ (pc \in {"claude_first", "handle_tool_use"})
         ~> \/ pc = "input" /\ result.done
            \/ pc = "main_finally" /\ last_input.kind = "interrupt"

\* a question that needed a reconnect, two tool calls and the follow-up
\* request has its result, and the shell awaits input
C21_Witness ==
    /\ pc = "input"
    /\ result.done
    /\ caller = "shell"
    /\ connected
    /\ Len(tool_calls) = 2
    /\ Len(requests) = 2

\* C22: on every exit path of main() (a quit command, end of input, an
\* interrupt at a prompt or during an await, a failed initial connection, a
\* missing key) the finally clause has released the transport and the session
\* before the process ends: once main() has returned, nothing is open and
\* both handles of the host are unset.
C22_ExitReleasesResources ==
    pc \in {"module_finally", "exited"} =>
        /\ live = {}
        /\ exit_stack = 0
        /\ mcp_session = 0

\* main() has returned after an interrupt during an attempt that had opened
\* its transport but not yet its session, and the finally clause closed it
C22_Witness ==
    /\ pc = "module_finally"
    /\ last_cleanup.called
    /\ last_cleanup.stack # 0
    /\ last_cleanup.session = 0
    /\ last_cleanup.open # {}
    /\ live = {}
    /\ exit_stack = 0

\* C23: once proceed_without_tools is true it stays true, the catalog is and
\* stays empty, connect_to_mcp_server() is not running and is never called
\* again (no new attempt, exit stack, transport, session or discovery,
\* whatever the Tool Provider would answer), the yes/no prompt is not shown
\* again, and every completion request is sent without tools and leads to no
\* tool call.
C23_OptOutIsFinal ==
    /\ [](proceed_without_tools =>
            /\ available_tools = <<>>
            /\ ~InConnect
            /\ pc # "prompt"
            /\ \A i \in 1..Len(requests) : requests[i].tools = <<>>
            /\ tool_calls = <<>>)
    /\ [][proceed_without_tools =>
            /\ proceed_without_tools'
            /\ available_tools' = <<>>
            /\ Len(conn_log') <= Len(conn_log)
            /\ exit_stack' \in {exit_stack, 0}
            /\ live' \subseteq live
            /\ UNCHANGED <<discovered, conn_failed_on>>]_vars

\* a question of a later turn, read with the flag set, has its answer from a
\* single request without tools; connect_to_mcp_server() was not called for it
C23_Witness ==
    /\ proceed_without_tools
    /\ pc = "input"
    /\ result.done
    /\ conn_log = <<>>
    /\ Len(requests) = 1
    /\ requests[1].tools = <<>>
    /\ available_tools = <<>>

\* the initial connect_to_mcp_server() of main() has not returned True
InitialConnectPending == caller = "main" /\ ~connected

\* C24: run_interactive() is entered only from the initial
\* connect_to_mcp_server() of main() returning True; when its last attempt
\* fails main() goes to its finally clause, and as long as the initial connect
\* has not succeeded no input is read, the yes/no prompt is not shown, and no
\* completion request and no tool call is made.
C24_LoopOnlyAfterInitialConnect ==
    /\ [](InLoop => (discovered.session # 0 /\ (caller = "main" => connected)))
    /\ [](InitialConnectPending =>
            /\ ~InLoop
            /\ last_input.at \notin {"input", "prompt"}
            /\ inputs_read = 0
            /\ answered = "none"
            /\ requests = <<>>
            /\ tool_calls = <<>>
            /\ result = NoResult)
    /\ [][(~InLoop /\ InLoop') =>
            /\ pc = "conn_discover"
            /\ caller = "main"
            /\ connected'
            /\ available_tools' # <<>>
            /\ pc' = "input"]_vars
    /\ [][(caller = "main" /\ pc = "conn_cleanup" /\ attempt = max_retries) =>
            /\ pc' = "main_finally"
            /\ ~connected'
            /\ UNCHANGED <<inputs_read, answered, requests, tool_calls>>]_vars

\* the process has ended after max_retries failed initial attempts; nothing
\* was read, asked or requested
C24_Witness ==
    /\ pc = "exited"
    /\ api_key
    /\ InitialConnectPending
    /\ Len(Attempts) = max_retries
    /\ inputs_read = 0
    /\ requests = <<>>

\* the step is a call of call_mcp_tool() that ended with exception e (e is
\* NoException when the call returned the tool's content)
ToolCallEndedWith(excs) ==
    /\ pc = "handle_tool_use"
    /\ Len(tool_calls') = Len(tool_calls) + 1
    /\ tool_calls'[Len(tool_calls')].exc \in excs

\* C25: connect_to_mcp_server(), and with it discover_tools(), runs only
\* while the catalog is empty; a non-empty catalog changes only in a call of
\* call_mcp_tool() that fails with a connection-class exception, which
\* empties it; a call of cleanup_connections(), a tool call that times out,
\* fails with another error or succeeds, and a failed discovery leave the
\* catalog as it was.
C25_CatalogFrame ==
    /\ [](InConnect => available_tools = <<>>)
    /\ [][pc' = "conn_attempt" => available_tools = <<>>]_vars
    /\ [][(available_tools # <<>> /\ available_tools' # available_tools) =>
            /\ ToolCallEndedWith(ConnectionClass)
            /\ available_tools' = <<>>]_vars
    /\ [][last_cleanup'.called => UNCHANGED available_tools]_vars
    /\ [][ToolCallEndedWith((ToolExceptions \cup {AttributeError, NoException})
                              \ ConnectionClass) =>
            UNCHANGED available_tools]_vars
    /\ [][(pc = "conn_discover" /\ pc' = "conn_cleanup") =>
            UNCHANGED available_tools]_vars

\* in one turn a tool call that timed out left the catalog in place and a
\* second one that failed at connection level emptied it
C25_Witness ==
    /\ Len(tool_calls) = 2
    /\ tool_calls[1].exc.timeout
    /\ tool_calls[1].tools_before # <<>>
    /\ tool_calls[1].tools_after = tool_calls[1].tools_before
    /\ tool_calls[2].exc \in ConnectionClass
    /\ tool_calls[2].tools_before # <<>>
    /\ available_tools = <<>>

====
